---- MODULE Spec2Model ----
(***************************************************************************)
(* Model of src/wasapi/voice.rs: the WASAPI playback session (Voice) and   *)
(* its buffer lease (Buffer), together with the audio device they drive.   *)
(***************************************************************************)
EXTENDS Integers, Sequences, FiniteSets, TLC

VARIABLES
    st,                   \* lifecycle of the Voice: "none", "alive", "failed", "dropped"
    audio_client,         \* Voice.audio_client
    render_client,        \* Voice.render_client
    max_frames_in_buffer, \* Voice.max_frames_in_buffer
    num_channels,         \* Voice.num_channels
    bytes_per_frame,      \* Voice.bytes_per_frame
    samples_per_second,   \* Voice.samples_per_second
    bits_per_sample,      \* Voice.bits_per_sample
    playing,              \* Voice.playing
    acquired,             \* COM handles acquired so far, in order
    released,             \* COM handles released so far, in order
    dev_format,           \* device: the format the stream was initialized with
    dev_started,          \* device: stream started
    dev_padding,          \* device: frames queued and not yet played
    dev_claimed,          \* device: frames of the span handed out by GetBuffer
    op,                   \* the operation the last step belongs to
    calls,                \* the device calls issued by the last step
    outcome,              \* how the last operation ended
    ret,                  \* the value the last step returned, if an accessor
    pc,                   \* "idle", or "append" inside the loop of append_data
    ap,                   \* the arguments of the append_data in progress, or of
                          \* the one that returned the live Buffer
    lease,                \* the live Buffer, or NoLease
    open_claims,          \* GetBuffer calls that returned a lease and were not
                          \* followed by a ReleaseBuffer call yet
    panic,                \* what made the last operation panic, or "none"
    span,                 \* the frames of the region buffer_data points to
    dev_queue             \* device: the queued frames, the next to play first

vars == <<st, audio_client, render_client, max_frames_in_buffer, num_channels,
          bytes_per_frame, samples_per_second, bits_per_sample, playing,
          acquired, released, dev_format, dev_started,
          dev_padding, dev_claimed, op, calls, outcome, ret, pc, ap, lease,
          open_claims, panic, span, dev_queue>>

stream == <<span, dev_queue>>

fields == <<audio_client, render_client, max_frames_in_buffer, num_channels,
            bytes_per_frame, samples_per_second, bits_per_sample>>

handles == <<acquired, released>>

device == <<dev_format, dev_started, dev_padding, dev_claimed>>

----------------------------------------------------------------------------
(* Bounds *)

\* largest buffer size GetBufferSize reports
MaxFrames == 3

\* leases the caller may abandon without finish before the model stops
\* issuing new ones
MaxOpenClaims == 2

----------------------------------------------------------------------------
(* Result codes *)

S_OK == "S_OK"
S_FALSE == "S_FALSE"
AUDCLNT_E_DEVICE_INVALIDATED == "AUDCLNT_E_DEVICE_INVALIDATED"
E_FAIL == "E_FAIL"

\* the codes a device call can return
HResults == {S_OK, AUDCLNT_E_DEVICE_INVALIDATED, E_FAIL}

\* IsFormatSupported can also return S_FALSE
FormatHResults == HResults \cup {S_FALSE}

\* check_result: Ok(()) for a success code, Err(code) otherwise
check_result(hr) == IF hr \in {S_OK, S_FALSE} THEN "Ok" ELSE hr

----------------------------------------------------------------------------
(* Formats *)

W16 == 65536

SampleFormats == {"I16", "F32"}

get_sample_size(t) == IF t = "I16" THEN 2 ELSE 4

\* the formats a caller requests
Formats == [channels : {1, 2}, samples_rate : {44100},
            data_type : SampleFormats]

format_attempt(f) ==
    [wFormatTag      |-> "WAVE_FORMAT_PCM",
     nChannels       |-> f.channels % W16,
     nSamplesPerSec  |-> f.samples_rate,
     nAvgBytesPerSec |-> f.channels * f.samples_rate * get_sample_size(f.data_type),
     nBlockAlign     |-> ((f.channels % W16) * (get_sample_size(f.data_type) % W16)) % W16,
     wBitsPerSample  |-> (8 * (get_sample_size(f.data_type) % W16)) % W16,
     cbSize          |-> 0]

NullFormat == [wFormatTag |-> "null"]

\* the closest matches the device may write to format_ptr
Substitutes ==
    {format_attempt([channels |-> 2, samples_rate |-> 48000, data_type |-> "I16"]),
     format_attempt([channels |-> 2, samples_rate |-> 44100, data_type |-> "F32"])}

FormatPtrs == {NullFormat} \cup Substitutes

\* a device call: its name, its argument, the value it wrote through its
\* out pointer, and the code it returned
CallIO(name, arg, out, hr) == [name |-> name, arg |-> arg, out |-> out, hr |-> hr]

Call(name, hr) == CallIO(name, 0, 0, hr)

CallN(name, hr, n) == CallIO(name, n, 0, hr)

NoLease == [frames |-> 0, buffer_len |-> 0, render_client |-> "null", size |-> 0]

NoAppend == [max_elements |-> <<0, 0, 0>>, size |-> 0]

----------------------------------------------------------------------------
Init ==
    /\ st = "none"
    /\ audio_client = "null"
    /\ render_client = "null"
    /\ max_frames_in_buffer = 0
    /\ num_channels = 0
    /\ bytes_per_frame = 0
    /\ samples_per_second = 0
    /\ bits_per_sample = 0
    /\ playing = FALSE
    /\ acquired = <<>>
    /\ released = <<>>
    /\ dev_format = NullFormat
    /\ dev_started = FALSE
    /\ dev_padding = 0
    /\ dev_claimed = 0
    /\ op = "none"
    /\ calls = <<>>
    /\ outcome = "none"
    /\ ret = "none"
    /\ pc = "idle"
    /\ ap = NoAppend
    /\ lease = NoLease
    /\ open_claims = 0
    /\ panic = "none"
    /\ span = <<>>
    /\ dev_queue = <<>>

----------------------------------------------------------------------------
(* Voice::new *)

\* a return of Voice::new that builds no Voice
NewFails(res, cs, acq, rel) ==
    /\ st' = "failed"
    /\ outcome' = res
    /\ calls' = cs
    /\ acquired' = acq
    /\ released' = rel
    /\ UNCHANGED <<fields, playing, dev_format>>

\* the device's answers to the handshake, one per call
Answers == [build : HResults, fmt : FormatHResults, ptr : FormatPtrs,
            init : HResults, size : HResults, frames : 1..MaxFrames,
            svc : HResults]

\* every failure taken as fatal
Classify_fatal(hr) == "Fatal"

\* the match on check_result(hresult) of IsFormatSupported, Initialize,
\* GetBufferSize and GetService: after the Release, DeviceNotAvailable for
\* the invalidated device, a panic for any other error
Classify(hr) ==
    IF check_result(hr) = AUDCLNT_E_DEVICE_INVALIDATED
    THEN "DeviceNotAvailable" ELSE "Fatal"

ReleaseAudio == CallIO("Release", "audio", 0, S_OK)

\* the substitute ignored
ResolveFormat_attempt(attempt, ptr) == attempt

\* the format the stream is initialized with: the one the device wrote to
\* format_ptr, or the attempt when it wrote null
ResolveFormat(attempt, ptr) == IF ptr = NullFormat THEN attempt ELSE ptr

\* the bit depth taken to be 16 whatever the format
VoiceFormat_16bit(format_copy) ==
    [num_channels       |-> format_copy.nChannels,
     bytes_per_frame    |-> format_copy.nBlockAlign,
     samples_per_second |-> format_copy.nSamplesPerSec,
     bits_per_sample    |-> 16]

\* the format fields of the Voice that new returns
VoiceFormat(format_copy) ==
    [num_channels       |-> format_copy.nChannels,
     bytes_per_frame    |-> format_copy.nBlockAlign,
     samples_per_second |-> format_copy.nSamplesPerSec,
     bits_per_sample    |-> format_copy.wBitsPerSample]

New(format, a) ==
    /\ st = "none"
    /\ op' = "new"
    /\ ret' = "none"
    /\ UNCHANGED <<dev_started, dev_padding, dev_claimed, pc, ap,
                   lease, open_claims, stream>>
    /\ LET c1 == <<Call("build_audioclient", a.build)>> IN
       IF a.build = AUDCLNT_E_DEVICE_INVALIDATED
       THEN NewFails("DeviceNotAvailable", c1, <<>>, <<>>)
       ELSE IF a.build # S_OK
       THEN NewFails("Fatal", c1, <<>>, <<>>)
       ELSE
       LET attempt == format_attempt(format)
           c2 == Append(c1, CallIO("IsFormatSupported", attempt, a.ptr, a.fmt))
       IN
       IF a.fmt = S_FALSE
       THEN NewFails("FormatNotSupported", c2, <<"audio">>, <<>>)
       ELSE IF check_result(a.fmt) # "Ok"
       THEN NewFails(Classify(a.fmt), Append(c2, ReleaseAudio),
                     <<"audio">>, <<"audio">>)
       ELSE
       LET fmt == ResolveFormat(attempt, a.ptr)
           format_copy == fmt
           c3 == Append(c2, CallIO("Initialize", fmt, 0, a.init))
       IN
       IF check_result(a.init) # "Ok"
       THEN NewFails(Classify(a.init), Append(c3, ReleaseAudio),
                     <<"audio">>, <<"audio">>)
       ELSE
       LET c4 == Append(c3, CallIO("GetBufferSize", 0, a.frames, a.size)) IN
       IF check_result(a.size) # "Ok"
       THEN /\ st' = "failed"
            /\ outcome' = Classify(a.size)
            /\ calls' = Append(c4, ReleaseAudio)
            /\ acquired' = <<"audio">>
            /\ released' = <<"audio">>
            /\ dev_format' = fmt
            /\ UNCHANGED <<fields, playing>>
       ELSE
       LET c5 == Append(c4, Call("GetService", a.svc)) IN
       IF check_result(a.svc) # "Ok"
       THEN /\ st' = "failed"
            /\ outcome' = Classify(a.svc)
            /\ calls' = Append(c5, ReleaseAudio)
            /\ acquired' = <<"audio">>
            /\ released' = <<"audio">>
            /\ dev_format' = fmt
            /\ UNCHANGED <<fields, playing>>
       ELSE /\ st' = "alive"
            /\ outcome' = "Ok"
            /\ calls' = c5
            /\ acquired' = <<"audio", "render">>
            /\ released' = <<>>
            /\ dev_format' = fmt
            /\ audio_client' = "audio"
            /\ render_client' = "render"
            /\ max_frames_in_buffer' = a.frames
            /\ num_channels' = VoiceFormat(format_copy).num_channels
            /\ bytes_per_frame' = VoiceFormat(format_copy).bytes_per_frame
            /\ samples_per_second' = VoiceFormat(format_copy).samples_per_second
            /\ bits_per_sample' = VoiceFormat(format_copy).bits_per_sample
            /\ playing' = FALSE
    /\ panic' = IF outcome' = "Fatal" THEN "panic" ELSE "none"

NewStep == \E format \in Formats, a \in Answers : New(format, a)

----------------------------------------------------------------------------
(* 32-bit unsigned arithmetic of append_data.  A usize is three 16-bit     *)
(* limbs, least significant first; a u32 is two.                            *)

\* max_elements as u32
AsU32(x) == <<x[1], x[2]>>

\* a * s in u32, wrapped
MulU32(a, s) ==
    LET p0 == a[1] * s
        p1 == a[2] * s + (p0 \div W16)
    IN <<p0 % W16, p1 % W16>>

\* whether a * s leaves the range of u32
MulOverflows(a, s) == (a[2] * s + ((a[1] * s) \div W16)) \div W16 # 0

\* the division by bytes_per_frame left out
DivU32_undivided(a, d) == a

\* a / d in u32
DivU32(a, d) ==
    LET q1 == a[2] \div d
        r  == a[2] % d
    IN <<(r * W16 + a[1]) \div d, q1>>

\* the clamp forgotten: the free capacity is taken as it is
MinU32_unclamped(n, a) == n

\* cmp::min(n, a) for n below 2^16
MinU32(n, a) == IF a[2] > 0 \/ a[1] >= n THEN n ELSE a[1]

\* the values of max_elements a caller passes
\* (0, 2, 4, 2^30 and 2^32 + 8)
ElementCounts == {<<0, 0, 0>>, <<2, 0, 0>>, <<4, 0, 0>>, <<0, 16384, 0>>,
                  <<8, 0, 1>>}

\* mem::size_of::<T>() of the sample types a caller uses
SampleSizes == {2, 4}

----------------------------------------------------------------------------
(* Voice::append_data *)

\* the failure reported as DeviceNotAvailable instead of a panic
AppendPanics_unavailable(cs) ==
    /\ calls' = cs
    /\ outcome' = "DeviceNotAvailable"
    /\ pc' = "idle"
    /\ ap' = NoAppend
    /\ UNCHANGED <<lease, open_claims, dev_claimed>>

\* append_data panics: no Buffer is returned
AppendPanics(cs) ==
    /\ calls' = cs
    /\ outcome' = "Fatal"
    /\ pc' = "idle"
    /\ ap' = NoAppend
    /\ UNCHANGED <<lease, open_claims, dev_claimed>>

\* append_data panics with the message msg
AppendPanicsWith(cs, msg) ==
    AppendPanics(cs) /\ panic' = msg /\ UNCHANGED span

\* the padding left out: the whole buffer taken as free
FramesAvailable_whole(max_frames, padding) == max_frames

\* self.max_frames_in_buffer - padding
FramesAvailable(max_frames, padding) == max_frames - padding

\* the builds whose outcome on a * s differs: with overflow checks (debug)
\* an overflowing product panics, without them (release) it wraps
Builds(a, s) == IF MulOverflows(a, s) THEN {TRUE, FALSE} ELSE {FALSE}

\* one iteration of the loop of append_data
Poll(max_elements, size) ==
    /\ op' = "append_data"
    /\ ret' = "none"
    /\ UNCHANGED <<st, fields, playing, handles, dev_format,
                   dev_started, dev_padding, dev_queue>>
    /\ \E hr_pad \in HResults :
       LET c1 == <<Call("GetCurrentPadding", hr_pad)>>
           padding == dev_padding
           frames_available == FramesAvailable(max_frames_in_buffer, padding)
           product == MulU32(AsU32(max_elements), size)
           requested == DivU32(product, bytes_per_frame)
           clamped == MinU32(frames_available, requested)
       IN
       IF check_result(hr_pad) # "Ok" THEN AppendPanicsWith(c1, "unwrap")
       ELSE IF frames_available = 0
       THEN /\ calls' = c1
            /\ outcome' = "none"
            /\ panic' = "none"
            /\ UNCHANGED span
            /\ pc' = "append"
            /\ ap' = [max_elements |-> max_elements, size |-> size]
            /\ UNCHANGED <<lease, open_claims, dev_claimed>>
       ELSE \E overflow_checks \in Builds(AsU32(max_elements), size) :
       IF overflow_checks THEN AppendPanicsWith(c1, "overflow")
       ELSE IF clamped = 0 THEN AppendPanicsWith(c1, "assert")
       ELSE \E hr_buf \in HResults :
       LET c2 == Append(c1, CallN("GetBuffer", hr_buf, clamped)) IN
       IF check_result(hr_buf) # "Ok" THEN AppendPanicsWith(c2, "unwrap")
       ELSE /\ calls' = c2
            /\ outcome' = "Ok"
            /\ panic' = "none"
            /\ pc' = "idle"
            /\ ap' = [max_elements |-> max_elements, size |-> size]
            /\ lease' = [frames |-> clamped,
                         buffer_len |-> (clamped * bytes_per_frame) \div size,
                         render_client |-> render_client,
                         size |-> size]
            /\ open_claims' = open_claims + 1
            /\ dev_claimed' = clamped
            /\ span' = [i \in 1..clamped |-> 0]

\* the caller calls append_data: the first iteration of its loop
AppendData(max_elements, size) ==
    /\ st = "alive"
    /\ pc = "idle"
    /\ lease = NoLease
    /\ open_claims < MaxOpenClaims
    /\ Poll(max_elements, size)

\* append_data wakes from sleep_ms(1) and polls again
AppendRetry ==
    /\ pc = "append"
    /\ Poll(ap.max_elements, ap.size)

----------------------------------------------------------------------------
(* Buffer *)

\* a call on the handle `on`, with a frame count and flags
CallOn(on, name, n, flags, hr) ==
    [name |-> name, arg |-> n, out |-> 0, hr |-> hr, flags |-> flags, on |-> on]

\* nothing committed
ReleaseFrames_none(l) == 0

\* the frame count finish passes to ReleaseBuffer
ReleaseFrames(l) == l.frames

\* finish stopping the stream flag as well
Finish_pauses ==
    /\ lease # NoLease
    /\ op' = "finish"
    /\ \E hr \in HResults :
       /\ calls' = <<CallOn(lease.render_client, "ReleaseBuffer",
                            ReleaseFrames(lease), 0, hr)>>
       /\ IF check_result(hr) = "Ok"
          THEN /\ outcome' = "Ok"
               /\ dev_padding' = dev_padding + calls'[1].arg
               /\ dev_claimed' = 0
               /\ dev_queue' = dev_queue \o SubSeq(span, 1, calls'[1].arg)
          ELSE /\ outcome' = "Fatal"
               /\ UNCHANGED <<dev_padding, dev_claimed, dev_queue>>
    /\ lease' = NoLease
    /\ span' = <<>>
    /\ open_claims' = open_claims - 1
    /\ ret' = "none"
    /\ panic' = IF outcome' = "Fatal" THEN "unwrap" ELSE "none"
    /\ ap' = NoAppend
    /\ playing' = FALSE
    /\ UNCHANGED <<st, fields, handles, dev_format,
                   dev_started, pc>>

\* Buffer::finish
Finish ==
    /\ lease # NoLease
    /\ op' = "finish"
    /\ \E hr \in HResults :
       /\ calls' = <<CallOn(lease.render_client, "ReleaseBuffer",
                            ReleaseFrames(lease), 0, hr)>>
       /\ IF check_result(hr) = "Ok"
          THEN /\ outcome' = "Ok"
               /\ dev_padding' = dev_padding + calls'[1].arg
               /\ dev_claimed' = 0
               /\ dev_queue' = dev_queue \o SubSeq(span, 1, calls'[1].arg)
          ELSE /\ outcome' = "Fatal"
               /\ UNCHANGED <<dev_padding, dev_claimed, dev_queue>>
    /\ lease' = NoLease
    /\ span' = <<>>
    /\ open_claims' = open_claims - 1
    /\ ret' = "none"
    /\ panic' = IF outcome' = "Fatal" THEN "unwrap" ELSE "none"
    /\ ap' = NoAppend
    /\ UNCHANGED <<st, fields, playing, handles, dev_format,
                   dev_started, pc>>

\* the caller lets a Buffer go out of scope: Buffer has no Drop
DropBuffer ==
    /\ lease # NoLease
    /\ op' = "drop_buffer"
    /\ calls' = <<>>
    /\ outcome' = "Ok"
    /\ lease' = NoLease
    /\ ret' = "none"
    /\ panic' = "none"
    /\ ap' = NoAppend
    /\ span' = <<>>
    /\ UNCHANGED <<st, fields, playing, handles, device, pc,
                   open_claims, dev_queue>>

\* the whole frames the slice of get_buffer covers
Covered(l, bytes) == (l.buffer_len * l.size) \div bytes

\* the sample the caller writes into frame i: 1 and 2 in turn, and never
\* the 0 of a frame left as GetBuffer handed it out
Sample(i) == 2 - (i % 2)

\* Buffer::get_buffer, and the caller writing every element of the slice
Write ==
    /\ lease # NoLease
    /\ op' = "get_buffer"
    /\ calls' = <<>>
    /\ outcome' = "Ok"
    /\ ret' = "none"
    /\ panic' = "none"
    /\ span' = [i \in DOMAIN span |->
                   IF i <= Covered(lease, bytes_per_frame)
                   THEN Sample(i) ELSE span[i]]
    /\ UNCHANGED <<st, fields, playing, handles, device, pc, ap,
                   lease, open_claims, dev_queue>>

----------------------------------------------------------------------------
(* Transport control *)

\* the borrow of the Buffer left out
Callable_unborrowed == st = "alive" /\ pc = "idle"

\* the guard every method of Voice has: the Voice exists, the thread that
\* owns it is not inside append_data, and no Buffer borrows it
Callable == st = "alive" /\ pc = "idle" /\ lease = NoLease

\* the flag assigned whether or not the call succeeded
FlagAfter_unchecked(hr, old, new) == new

\* Start issued whatever the flag
NeedsStart_always(p) == TRUE

\* the device's started state after a Start or Stop that returned hr
DeviceAfter(hr, old, new) == IF hr = S_OK THEN new ELSE old

\* check_result(hresult).unwrap() followed by the assignment of the flag:
\* the assignment is reached only when the call succeeded
FlagAfter(hr, old, new) == IF check_result(hr) = "Ok" THEN new ELSE old

\* if !self.playing
NeedsStart(p) == ~p

\* if self.playing
NeedsStop(p) == p

Play ==
    /\ Callable
    /\ op' = "play"
    /\ IF NeedsStart(playing)
       THEN \E hr \in HResults :
            /\ calls' = <<Call("Start", hr)>>
            /\ dev_started' = DeviceAfter(hr, dev_started, TRUE)
            /\ playing' = FlagAfter(hr, playing, TRUE)
            /\ outcome' = IF check_result(hr) = "Ok" THEN "Ok" ELSE "Fatal"
       ELSE /\ calls' = <<>>
            /\ playing' = TRUE
            /\ outcome' = "Ok"
            /\ UNCHANGED dev_started
    /\ ret' = "none"
    /\ panic' = IF outcome' = "Fatal" THEN "unwrap" ELSE "none"
    /\ UNCHANGED <<st, fields, handles, dev_format, dev_padding,
                   dev_claimed, pc, ap, lease, open_claims, stream>>

Pause ==
    /\ Callable
    /\ op' = "pause"
    /\ IF NeedsStop(playing)
       THEN \E hr \in HResults :
            /\ calls' = <<Call("Stop", hr)>>
            /\ dev_started' = DeviceAfter(hr, dev_started, FALSE)
            /\ playing' = FlagAfter(hr, playing, FALSE)
            /\ outcome' = IF check_result(hr) = "Ok" THEN "Ok" ELSE "Fatal"
       ELSE /\ calls' = <<>>
            /\ playing' = FALSE
            /\ outcome' = "Ok"
            /\ UNCHANGED dev_started
    /\ ret' = "none"
    /\ panic' = IF outcome' = "Fatal" THEN "unwrap" ELSE "none"
    /\ UNCHANGED <<st, fields, handles, dev_format, dev_padding,
                   dev_claimed, pc, ap, lease, open_claims, stream>>

----------------------------------------------------------------------------
(* Accessors *)

Accessor(name, value, res) ==
    /\ Callable
    /\ op' = name
    /\ calls' = <<>>
    /\ ret' = value
    /\ outcome' = res
    /\ panic' = IF res = "Fatal" THEN "panic" ELSE "none"
    /\ UNCHANGED <<st, fields, playing, handles, device, pc, ap,
                   lease, open_claims, stream>>

get_channels == Accessor("get_channels", num_channels, "Ok")

get_samples_rate == Accessor("get_samples_rate", samples_per_second, "Ok")

get_samples_format ==
    IF bits_per_sample = 16
    THEN Accessor("get_samples_format", "I16", "Ok")
    ELSE Accessor("get_samples_format", "none", "Fatal")

----------------------------------------------------------------------------
(* Drop for Voice *)

\* the device client released before the render service
DropReleases_reversed == <<"audio", "render">>

\* the handles drop releases, in order
DropReleases == <<"render", "audio">>

Teardown ==
    /\ Callable
    /\ op' = "drop"
    /\ st' = "dropped"
    /\ calls' = [i \in 1..Len(DropReleases) |->
                    CallIO("Release", DropReleases[i], 0, S_OK)]
    /\ released' = released \o DropReleases
    /\ outcome' = "Ok"
    /\ ret' = "none"
    /\ panic' = "none"
    /\ UNCHANGED <<fields, playing, acquired, device, pc, ap,
                   lease, open_claims, stream>>

----------------------------------------------------------------------------
(* The device plays one queued frame *)

DeviceConsume ==
    /\ st = "alive"
    /\ dev_started
    /\ dev_padding > 0
    /\ dev_padding' = dev_padding - 1
    /\ dev_queue' = Tail(dev_queue)
    /\ op' = "device"
    /\ calls' = <<>>
    /\ ret' = "none"
    /\ UNCHANGED <<st, fields, playing, handles, dev_format,
                   dev_started, dev_claimed, outcome, pc, ap, lease,
                   open_claims, panic, span>>

----------------------------------------------------------------------------
AppendDataStep ==
    \E max_elements \in ElementCounts, size \in SampleSizes :
        AppendData(max_elements, size)

Next ==
    \/ NewStep
    \/ AppendDataStep
    \/ AppendRetry
    \/ Finish
    \/ DropBuffer
    \/ Write
    \/ Play
    \/ Pause
    \/ get_channels
    \/ get_samples_rate
    \/ get_samples_format
    \/ Teardown
    \/ DeviceConsume

Spec == Init /\ [][Next]_vars

----------------------------------------------------------------------------
(* Properties *)

\* how many times handle h occurs in the log s
Count(s, h) == Cardinality({i \in DOMAIN s : s[i] = h})

\* the calls of the last step that are named n
Issued(n) == {i \in DOMAIN calls : calls[i].name = n}

\* C1: after a failed Voice::new every handle that was acquired has been
\* released: no device client and no render service remains held.
C1_NoHandleHeldAfterFailedNew ==
    st = "failed" =>
        \A h \in {"audio", "render"} : Count(acquired, h) = Count(released, h)

\* C2: a GetBuffer is issued only when every lease issued before it has had
\* its ReleaseBuffer: at most one lease is outstanding at the device.
C2_NoSecondGetBuffer ==
    [][(op' = "append_data" /\ Issued("GetBuffer")' # {}) => open_claims = 0]_vars

\* C3: every lease is finalized exactly once: the leases whose ReleaseBuffer
\* has not been issued are the live lease and nothing else.
C3_EveryLeaseFinalizedOnce ==
    open_claims = (IF lease = NoLease THEN 0 ELSE 1)

\* whether max_elements * size, computed exactly, is at least n
\* (n below 2^16, size at least 1)
ExactProductAtLeast(max_elements, size, n) ==
    \/ max_elements[3] > 0
    \/ max_elements[2] > 0
    \/ max_elements[1] * size >= n

\* C4: the frame count of every lease is positive, at most the requested
\* maximum in frames, floor(max_elements * sizeof(T) / bytes_per_frame),
\* and at most max_frames_in_buffer - padding when it is claimed.
C4_LeaseFramesBounded ==
    lease # NoLease =>
        /\ lease.frames > 0
        /\ ExactProductAtLeast(ap.max_elements, ap.size,
                               lease.frames * bytes_per_frame)
        /\ op = "append_data" =>
               lease.frames <= max_frames_in_buffer - dev_padding

\* a lease clamped by the request while the buffer is partly filled
C4_Witness ==
    /\ lease # NoLease
    /\ op = "append_data"
    /\ dev_padding > 0
    /\ lease.frames < max_frames_in_buffer - dev_padding

\* the handshake calls Voice::new issued, without its Release calls
Handshake == SelectSeq(calls, LAMBDA c : c.name # "Release")

\* C5: IsFormatSupported has three outcomes: supported as requested, and new
\* initializes the stream with the candidate; supported with a substitute,
\* and new initializes the stream with the substitute; unsupported with no
\* substitute, and new fails with FormatNotSupported.
C5_FormatNegotiation ==
    (op = "new" /\ Len(calls) >= 2) =>
        LET c == calls[2] IN
        /\ (c.hr = S_OK /\ c.out = NullFormat) =>
               /\ Len(calls) >= 3
               /\ calls[3].name = "Initialize"
               /\ calls[3].arg = c.arg
        /\ (c.hr = S_OK /\ c.out # NullFormat) =>
               /\ Len(calls) >= 3
               /\ calls[3].name = "Initialize"
               /\ calls[3].arg = c.out
        /\ (c.hr = S_FALSE /\ c.out = NullFormat) =>
               /\ outcome = "FormatNotSupported"
               /\ st = "failed"
               /\ Len(calls) = 2

\* a construction that succeeded on a substituted format
C5_Witness ==
    /\ op = "new"
    /\ st = "alive"
    /\ calls[2].out # NullFormat
    /\ calls[2].out # calls[2].arg

\* C6: when new succeeds, the fields of the Voice and the values of the
\* accessors are those of the format passed to Initialize, which is the
\* substitute when the device wrote one and the candidate otherwise.
C6_ReportedFormatIsInitialized ==
    st = "alive" =>
        /\ num_channels = dev_format.nChannels
        /\ samples_per_second = dev_format.nSamplesPerSec
        /\ bytes_per_frame = dev_format.nBlockAlign
        /\ bits_per_sample = dev_format.wBitsPerSample
        /\ op = "new" =>
               /\ calls[3].name = "Initialize"
               /\ calls[3].arg = dev_format
               /\ dev_format = IF calls[2].out = NullFormat
                               THEN calls[2].arg ELSE calls[2].out
        /\ op = "get_channels" => ret = dev_format.nChannels
        /\ op = "get_samples_rate" => ret = dev_format.nSamplesPerSec
        /\ (op = "get_samples_format" /\ outcome = "Ok") =>
               ret = "I16" /\ dev_format.wBitsPerSample = 16

\* the accessor reports the substituted rate, which no caller requested
C6_Witness ==
    /\ st = "alive"
    /\ op = "get_samples_rate"
    /\ ret = 48000

\* C7 as stated: at every handshake step the invalidated device gives
\* DeviceNotAvailable, success proceeds, and every other code is fatal.
C7_ThreeWaySplit ==
    op = "new" =>
        \A i \in DOMAIN Handshake :
            LET hr == Handshake[i].hr IN
            /\ hr = AUDCLNT_E_DEVICE_INVALIDATED =>
                   i = Len(Handshake) /\ outcome = "DeviceNotAvailable"
            /\ hr = S_OK =>
                   i < Len(Handshake) \/ (i = 5 /\ outcome = "Ok")
            /\ hr \notin {AUDCLNT_E_DEVICE_INVALIDATED, S_OK} =>
                   i = Len(Handshake) /\ outcome = "Fatal"

\* C7, amended: the three-way split holds at every handshake step, except
\* that S_FALSE from IsFormatSupported ends new with FormatNotSupported;
\* an invalidated device at build_audioclient acquires nothing.
C7_SplitExceptFormat ==
    op = "new" =>
        /\ \A i \in DOMAIN Handshake :
            LET hr == Handshake[i].hr IN
            /\ hr = AUDCLNT_E_DEVICE_INVALIDATED =>
                   i = Len(Handshake) /\ outcome = "DeviceNotAvailable"
            /\ hr = S_OK =>
                   i < Len(Handshake) \/ (i = 5 /\ outcome = "Ok")
            /\ hr = S_FALSE =>
                   /\ Handshake[i].name = "IsFormatSupported"
                   /\ i = Len(Handshake)
                   /\ outcome = "FormatNotSupported"
            /\ hr \notin {AUDCLNT_E_DEVICE_INVALIDATED, S_OK, S_FALSE} =>
                   i = Len(Handshake) /\ outcome = "Fatal"
        /\ [i \in DOMAIN Handshake |-> Handshake[i].name] \in
               {SubSeq(<<"build_audioclient", "IsFormatSupported", "Initialize",
                         "GetBufferSize", "GetService">>, 1, n) : n \in 1..5}
        /\ calls[1].hr = AUDCLNT_E_DEVICE_INVALIDATED =>
               acquired = <<>> /\ outcome = "DeviceNotAvailable"

\* the device is invalidated at GetService, after four successful steps
C7_Witness ==
    /\ op = "new"
    /\ Len(Handshake) = 5
    /\ Handshake[5].hr = AUDCLNT_E_DEVICE_INVALIDATED
    /\ outcome = "DeviceNotAvailable"

\* C8: play on a playing Voice issues no Start and changes no field; pause
\* on a paused Voice issues no Stop and changes no field.
C8_TransportIdempotent ==
    [][/\ (op' = "play" /\ playing) =>
              calls' = <<>> /\ UNCHANGED <<fields, playing, st, device>>
       /\ (op' = "pause" /\ ~playing) =>
              calls' = <<>> /\ UNCHANGED <<fields, playing, st, device>>]_vars

\* play has returned without a device call: the Voice was playing already
C8_Witness ==
    /\ op = "play"
    /\ calls = <<>>
    /\ playing
    /\ dev_started

\* C9: the playing flag equals the started state of the device; it changes
\* only in a step whose one device call is a successful Start (to true) or
\* Stop (to false); a failing Start or Stop is fatal, leaves the flag as it
\* was and is issued once.
C9_FlagFollowsDevice ==
    /\ [](playing = dev_started)
    /\ [][/\ playing' # playing =>
                 /\ Len(calls') = 1
                 /\ calls'[1].hr = S_OK
                 /\ calls'[1].name = IF playing' THEN "Start" ELSE "Stop"
          /\ op' \in {"play", "pause"} =>
                 /\ Len(calls') <= 1
                 /\ (Len(calls') = 1 /\ calls'[1].hr # S_OK) =>
                        outcome' = "Fatal" /\ playing' = playing]_vars

\* a Stop failed on a playing Voice, which is still playing
C9_Witness ==
    /\ op = "pause"
    /\ outcome = "Fatal"
    /\ playing
    /\ dev_started

\* C10: dropping a Voice releases the render service and then the device
\* client, each once, whatever the flag and whatever came before; a live
\* Voice has released nothing.
C10_TeardownReleasesInOrder ==
    /\ st = "alive" => released = <<>>
    /\ st = "dropped" =>
           /\ acquired = <<"audio", "render">>
           /\ released = <<"render", "audio">>
           /\ op = "drop"
           /\ [i \in DOMAIN calls |-> calls[i].arg] = <<"render", "audio">>
           /\ \A i \in DOMAIN calls : calls[i].name = "Release"

\* a Voice dropped while playing, with frames still queued
C10_Witness ==
    /\ st = "dropped"
    /\ playing
    /\ dev_padding > 0

\* min(free, floor(max_elements * size / bytes), computed exactly
\* (free and bytes below 2^8)
ExactRequestMin(free, max_elements, size, bytes) ==
    IF ExactProductAtLeast(max_elements, size, free * bytes)
    THEN free
    ELSE (max_elements[1] * size) \div bytes

\* C11: a poll that finds the buffer full issues no GetBuffer, reports no
\* error and leaves append_data polling; a poll that finds free capacity
\* returns a lease of min(free capacity, requested maximum in frames)
\* frames, unless the device fails the GetBuffer.
C11_PollBlocksThenLeases ==
    [][(op' = "append_data" /\ Len(calls') >= 1 /\ calls'[1].hr = S_OK) =>
          IF dev_padding = max_frames_in_buffer
          THEN /\ Len(calls') = 1
               /\ outcome' = "none"
               /\ panic' = "none"
               /\ pc' = "append"
               /\ lease' = NoLease
          ELSE \/ Len(calls') = 2 /\ calls'[2].hr # S_OK
               \/ /\ lease' # NoLease
                  /\ lease'.frames =
                         ExactRequestMin(max_frames_in_buffer - dev_padding,
                                         ap'.max_elements, ap'.size,
                                         bytes_per_frame)]_vars

\* the frames of the region s that were written through the slice
WrittenFrames(s) == SelectSeq(s, LAMBDA v : v # 0)

\* C12: finalizing a lease that was written queues exactly the frames
\* written into it, in the order written and behind the frames of the
\* leases finalized before, and the device plays the queue from its head:
\* no frame is reordered, duplicated or dropped, and none is queued that
\* was not written.
C12_ConsumedFramesAreWritten ==
    [][/\ (op' = "finish" /\ outcome' = "Ok" /\ WrittenFrames(span) # <<>>) =>
              dev_queue' = dev_queue \o WrittenFrames(span)
       /\ op' = "device" => dev_queue' = Tail(dev_queue)]_vars

\* C13: the frames queued in the device never exceed max_frames_in_buffer,
\* and the frames of a live lease fit in what is free, so that finalizing
\* it cannot overrun the buffer.
C13_NoOverrun ==
    st = "alive" =>
        /\ dev_padding <= max_frames_in_buffer
        /\ lease # NoLease =>
               dev_padding + lease.frames <= max_frames_in_buffer

\* a lease that fills the buffer exactly, behind frames still queued
C13_Witness ==
    /\ lease # NoLease
    /\ dev_padding > 0
    /\ dev_padding + lease.frames = max_frames_in_buffer

\* C14: with free capacity above 0 the clamped frame count is above 0:
\* assert!(frames_available != 0) never fails.
C14_AssertNeverFails == panic # "assert"

\* C15: finish issues one ReleaseBuffer, with the frame count of the
\* GetBuffer that created the lease and flags 0, on the render service of
\* the Voice; the frame count of a live lease never changes.
C15_FinishCommitsClaimedFrames ==
    [][/\ op' = "finish" =>
              /\ Len(calls') = 1
              /\ calls'[1].name = "ReleaseBuffer"
              /\ calls'[1].arg = dev_claimed
              /\ calls'[1].arg = lease.frames
              /\ calls'[1].flags = 0
              /\ calls'[1].on = render_client
              /\ lease' = NoLease
       /\ (lease # NoLease /\ lease' # NoLease) =>
              lease'.frames = lease.frames]_vars

\* a finish that committed more than one frame
C15_Witness ==
    /\ op = "finish"
    /\ outcome = "Ok"
    /\ calls[1].arg > 1
    /\ dev_padding >= calls[1].arg

\* C16: a failing GetCurrentPadding or GetBuffer ends append_data with a
\* panic: it is the last device call of the operation, no lease is issued,
\* the loop is left and the outcome is fatal, never DeviceNotAvailable; a
\* failing ReleaseBuffer ends finish the same way.
C16_RuntimeFailuresAreFatal ==
    [][/\ (op' = "append_data" /\ \E i \in DOMAIN calls' : calls'[i].hr # S_OK) =>
              /\ \A i \in DOMAIN calls' :
                     calls'[i].hr # S_OK => i = Len(calls')
              /\ outcome' = "Fatal"
              /\ lease' = NoLease
              /\ open_claims' = open_claims
              /\ pc' = "idle"
       /\ (op' = "finish" /\ calls'[1].hr # S_OK) =>
              /\ Len(calls') = 1
              /\ outcome' = "Fatal"]_vars

\* GetBuffer failed on an invalidated device
C16_Witness ==
    /\ op = "append_data"
    /\ Len(calls) = 2
    /\ calls[2].hr = AUDCLNT_E_DEVICE_INVALIDATED
    /\ outcome = "Fatal"
    /\ lease = NoLease

\* C17: a Buffer does not outlive its Voice: a dropped Voice has no live
\* Buffer, the Voice is not dropped while a Buffer is live, and finish runs
\* only on a Voice that has released nothing.
C17_LeaseWithinSession ==
    /\ [](st = "dropped" => lease = NoLease)
    /\ [][/\ (st = "alive" /\ st' = "dropped") => lease = NoLease
          /\ op' = "finish" => (st' = "alive" /\ released' = <<>>)]_vars

\* a Voice dropped after a lease was finalized
C17_Witness ==
    /\ st = "dropped"
    /\ open_claims = 0
    /\ dev_padding > 0

\* C18: once new has succeeded, no operation changes max_frames_in_buffer,
\* the channel count, bytes per frame, sample rate or bits per sample, and
\* append_data and finish leave the playing flag as it is.
C18_FieldsImmutable ==
    [][/\ st = "alive" => UNCHANGED fields
       /\ op' \in {"append_data", "finish"} => playing' = playing]_vars

\* a lease was finalized on a playing Voice
C18_Witness ==
    /\ op = "finish"
    /\ playing
    /\ st = "alive"

\* C19: the slice of a lease has frames * bytes_per_frame / sizeof(T)
\* elements, and never more than the max_elements of the caller.
C19_SliceLength ==
    lease # NoLease =>
        /\ lease.buffer_len = (lease.frames * bytes_per_frame) \div lease.size
        /\ \/ ap.max_elements[3] > 0
           \/ ap.max_elements[2] > 0
           \/ ap.max_elements[1] >= lease.buffer_len

\* a slice as long as the request allows
C19_Witness ==
    /\ lease # NoLease
    /\ ap.max_elements = <<4, 0, 0>>
    /\ lease.buffer_len = 4

\* C20: the u32 arithmetic of append_data does not wrap: max_elements fits
\* in 32 bits and its product with sizeof(T) does too, so that the
\* requested bound is the exact quotient; and the padding never exceeds
\* max_frames_in_buffer.
C20_NoWrap ==
    st = "alive" =>
        /\ dev_padding <= max_frames_in_buffer
        /\ ap # NoAppend =>
               /\ ap.max_elements[3] = 0
               /\ ~MulOverflows(AsU32(ap.max_elements), ap.size)
====
